---- MODULE Spec2Model ----
(***************************************************************************)
(* Day-ahead electricity prices frontend: the App component's fetch state  *)
(* machine, prepareChartData, DaySummaryTable's calculateStats, the        *)
(* PriceChart tooltip formatter and the dateUtils helpers.                 *)
(*                                                                         *)
(* Numbers: prices are whole EUR/MWh (the model's price sets hold          *)
(* integers), toFixed(2) results are integers counting hundredths, sort    *)
(* keys are integers counting tenths, instants are whole hours since       *)
(* 2024-01-01T00:00Z.                                                      *)
(***************************************************************************)
EXTENDS Integers, Sequences, FiniteSets, TLC

VARIABLES
    selectedDate,   \* App: useState(getToday())
    data,           \* App: ApiResponse | null
    loading,        \* App: boolean
    error,          \* App: string | null
    pending,        \* App: the fetchData calls awaiting axios.get, oldest first
    exporting,      \* App: the handleExportCsv calls awaiting axios.get
    mounted,        \* App: whether the mount effect has run
    chartData,      \* App: prepareChartData() of the last render
    tooltip,        \* PriceChart: the formatted values of the hovered row
    dayData,        \* DaySummaryTable: the DayData handed to calculateStats
    stats,          \* DaySummaryTable: what calculateStats returned
    dateStr,        \* dateUtils: the argument of getNextDay / getPreviousDay
    timeZone,       \* dateUtils: the runtime's time zone
    dateResult      \* dateUtils: what the call returned

vars == <<selectedDate, data, loading, error, pending, exporting, mounted,
          chartData, tooltip, dayData, stats, dateStr, timeZone, dateResult>>

appVars == <<selectedDate, data, loading, error, pending, exporting, mounted,
             chartData, tooltip>>
statsVars == <<dayData, stats>>
dateVars == <<dateStr, timeZone, dateResult>>

-----------------------------------------------------------------------------
(* Bounds *)

\* Hours in a regular day of the scaled-down grid (labels 00:00 .. HoursPerDay-1).
HoursPerDay == 4

\* Most fetchData calls awaiting their response at once.
MaxPending == 2

\* Most handleExportCsv calls awaiting their response at once.
MaxExporting == 1

\* Most slots of a three-day response that are not plainly priced.
MaxGaps == 2

-----------------------------------------------------------------------------
(* JavaScript values *)

Null == [t |-> "null", v |-> 0]
Undefined == [t |-> "undefined", v |-> 0]
Num(n) == [t |-> "number", v |-> n]
\* Number.prototype.toFixed(2): a string, held as the count of hundredths
Fixed2(h) == [t |-> "fixed2", v |-> h]
\* the string '\u2014' shown for a statistic that has no value
Dash == [t |-> "dash", v |-> 0]

IsNumber(x) == x.t = "number"
\* x == null / x != null (loose): null and undefined
IsNullish(x) == x.t \in {"null", "undefined"}
\* a ?? b
Coalesce(a, b) == IF IsNullish(a) THEN b ELSE a

Abs(n) == IF n < 0 THEN -n ELSE n

\* (num / den).toFixed(2), den > 0: the nearest count of hundredths, a tie
\* going to the larger magnitude; the sign is applied last.
ToFixed2(num, den) ==
    LET q == (200 * Abs(num) + den) \div (2 * den)
    IN  Fixed2(IF num < 0 THEN -q ELSE q)

-----------------------------------------------------------------------------
(* Hour labels: strings as sequences of characters *)

Digits == <<"0", "1", "2", "3", "4", "5", "6", "7", "8", "9">>
IsDigit(c) == \E i \in 1..10 : Digits[i] = c
DigitValue(c) == (CHOOSE i \in 1..10 : Digits[i] = c) - 1

\* "HH:00" with an optional suffix, as the API's hour_label
HourLabel(h, suffix) ==
    <<Digits[(h \div 10) + 1], Digits[(h % 10) + 1], ":", "0", "0">> \o suffix

\* String.prototype.includes(c)
Includes(s, c) == \E i \in 1..Len(s) : s[i] = c

\* String.prototype.replace(c, ''): the first occurrence only
ReplaceFirst(s, c) ==
    IF ~Includes(s, c) THEN s
    ELSE LET i == CHOOSE k \in 1..Len(s) : s[k] = c /\ \A j \in 1..(k - 1) : s[j] # c
         IN  SubSeq(s, 1, i - 1) \o SubSeq(s, i + 1, Len(s))

RECURSIVE ParseDigits(_, _)
ParseDigits(s, acc) ==
    IF s = <<>> \/ ~IsDigit(Head(s)) THEN acc
    ELSE ParseDigits(Tail(s), 10 * acc + DigitValue(Head(s)))

\* parseInt(s, 10) of a string that starts with a digit: the leading digits
ParseInt(s) == ParseDigits(s, 0)

-----------------------------------------------------------------------------
(* The API's day grids (types/api.ts): the shapes the frontend is handed *)

\* The wall-clock hour the zone's transitions skip or repeat ("02:00A", "02:00B").
TransitionHour == 2

NoSuffix == <<>>
GridKinds == {"normal", "spring", "fall"}

\* <<hour of day, suffix>> of the i-th slot of a day of the given kind:
\* a spring-forward day has no slot for TransitionHour, a fall-back day has two.
SlotClock(kind, i) ==
    CASE kind = "normal" -> <<i - 1, NoSuffix>>
      [] kind = "spring" -> IF i - 1 < TransitionHour THEN <<i - 1, NoSuffix>>
                            ELSE <<i, NoSuffix>>
      [] kind = "fall"   -> IF i - 1 < TransitionHour THEN <<i - 1, NoSuffix>>
                            ELSE IF i - 1 = TransitionHour THEN <<TransitionHour, <<"A">> >>
                            ELSE IF i - 1 = TransitionHour + 1 THEN <<TransitionHour, <<"B">> >>
                            ELSE <<i - 2, NoSuffix>>

SlotCount(kind) ==
    CASE kind = "normal" -> HoursPerDay
      [] kind = "spring" -> HoursPerDay - 1
      [] kind = "fall"   -> HoursPerDay + 1

\* HourData (timestamp_ms and price_ct_kwh are read nowhere in the frontend)
HourData(kind, i, fill) ==
    [hour_label        |-> HourLabel(SlotClock(kind, i)[1], SlotClock(kind, i)[2]),
     price_eur_mwh     |-> fill.price,
     is_missing        |-> fill.is_missing,
     is_dst_transition |-> SlotClock(kind, i)[2] # NoSuffix]

\* DayData: fills[i] gives the i-th slot's is_missing and price_eur_mwh
DayData(date, kind, fills) ==
    [date  |-> date,
     hours |-> [i \in 1..SlotCount(kind) |-> HourData(kind, i, fills[i])]]

-----------------------------------------------------------------------------
(* DaySummaryTable: calculateStats *)

RECURSIVE Reduce(_, _)
\* prices.reduce((a, b) => a + b, 0)
Reduce(seq, acc) == IF seq = <<>> THEN acc ELSE Reduce(Tail(seq), acc + Head(seq))

\* the filter without its !h.is_missing test
StatPricesIgnoringFlag(hours) ==
    LET kept == SelectSeq(hours, LAMBDA h : ~IsNullish(h.price_eur_mwh))
    IN  [k \in 1..Len(kept) |-> kept[k].price_eur_mwh.v]

\* dayData.hours.filter(h => !h.is_missing && h.price_eur_mwh != null)
\*              .map(h => h.price_eur_mwh)
StatPrices(hours) ==
    LET kept == SelectSeq(hours, LAMBDA h : ~h.is_missing /\ ~IsNullish(h.price_eur_mwh))
    IN  [k \in 1..Len(kept) |-> kept[k].price_eur_mwh.v]

\* a minimum that never goes below zero
MathMinFlooredAtZero(prices) ==
    LET m == CHOOSE x \in {prices[k] : k \in 1..Len(prices)} :
                 \A k \in 1..Len(prices) : x <= prices[k]
    IN  IF m < 0 THEN 0 ELSE m

\* Math.min(...prices), prices not empty
MathMin(prices) ==
    CHOOSE x \in {prices[k] : k \in 1..Len(prices)} : \A k \in 1..Len(prices) : x <= prices[k]

\* Math.max(...prices), prices not empty
MathMax(prices) ==
    CHOOSE x \in {prices[k] : k \in 1..Len(prices)} : \A k \in 1..Len(prices) : x >= prices[k]

\* a count of the slots that carry no price
MissingCountByPrice(hours) ==
    Len(SelectSeq(hours, LAMBDA h : IsNullish(h.price_eur_mwh)))

\* dayData.hours.filter(h => h.is_missing).length
MissingCount(hours) == Len(SelectSeq(hours, LAMBDA h : h.is_missing))

calculateStats(day) ==
    LET prices == StatPrices(day.hours)
    IN  [avg     |-> IF Len(prices) # 0 THEN ToFixed2(Reduce(prices, 0), Len(prices)) ELSE Dash,
         min     |-> IF Len(prices) # 0 THEN ToFixed2(MathMin(prices), 1) ELSE Dash,
         max     |-> IF Len(prices) # 0 THEN ToFixed2(MathMax(prices), 1) ELSE Dash,
         missing |-> MissingCount(day.hours),
         dst     |-> IF \E i \in 1..Len(day.hours) : day.hours[i].is_dst_transition
                     THEN "Yes" ELSE "No"]

-----------------------------------------------------------------------------
(* App: prepareChartData and its helpers *)

\* the map keeps a price the API left in a slot it flagged missing
MapEntryValueIgnoringFlag(hour) == hour.price_eur_mwh

\* hour.is_missing ? null : hour.price_eur_mwh
MapEntryValue(hour) == IF hour.is_missing THEN Null ELSE hour.price_eur_mwh

\* createHourPriceMap: new Map(hours.map(hour => [hour.hour_label, value])); of
\* the entries with one key the Map keeps the last
createHourPriceMap(hours) ==
    [label \in {hours[i].hour_label : i \in 1..Len(hours)} |->
        LET at == {i \in 1..Len(hours) : hours[i].hour_label = label}
        IN  MapEntryValue(hours[CHOOSE i \in at : \A j \in at : j <= i])]

\* Map.prototype.get: undefined for an absent key
MapGet(map, label) == IF label \in DOMAIN map THEN map[label] ELSE Undefined

RECURSIVE AddAll(_, _)
\* labels.forEach(l => set.add(l)) on an insertion-ordered Set
AddAll(acc, labels) ==
    IF labels = <<>> THEN acc
    ELSE AddAll(IF \E k \in 1..Len(acc) : acc[k] = Head(labels)
                THEN acc ELSE Append(acc, Head(labels)),
                Tail(labels))

LabelsOf(hours) == [i \in 1..Len(hours) |-> hours[i].hour_label]

\* getAllHourLabels: selected day first, then previous, then next
getAllHourLabels(apiData) ==
    AddAll(AddAll(AddAll(<<>>, LabelsOf(apiData.selected_day.hours)),
                  LabelsOf(apiData.previous_day.hours)),
           LabelsOf(apiData.next_day.hours))

\* the two suffix offsets exchanged
getSortableHourValueSwapped(hourLabel) ==
    IF Includes(hourLabel, "A") THEN 10 * ParseInt(ReplaceFirst(hourLabel, "A")) + 2
    ELSE IF Includes(hourLabel, "B") THEN 10 * ParseInt(ReplaceFirst(hourLabel, "B")) + 1
    ELSE 10 * ParseInt(hourLabel)

\* getSortableHourValue, in tenths: parseInt(...) + 0.1, + 0.2, or parseInt(label)
getSortableHourValue(hourLabel) ==
    IF Includes(hourLabel, "A") THEN 10 * ParseInt(ReplaceFirst(hourLabel, "A")) + 1
    ELSE IF Includes(hourLabel, "B") THEN 10 * ParseInt(ReplaceFirst(hourLabel, "B")) + 2
    ELSE 10 * ParseInt(hourLabel)

\* one step of a stable sort: x goes after every element that does not
\* compare greater than it (valueA - valueB <= 0)
InsertSorted(sorted, x) ==
    LET n == Cardinality({k \in 1..Len(sorted) :
                  getSortableHourValue(sorted[k]) - getSortableHourValue(x) <= 0})
    IN  SubSeq(sorted, 1, n) \o <<x>> \o SubSeq(sorted, n + 1, Len(sorted))

RECURSIVE SortInto(_, _)
SortInto(sorted, rest) ==
    IF rest = <<>> THEN sorted ELSE SortInto(InsertSorted(sorted, Head(rest)), Tail(rest))

\* [...labels].sort((a, b) => value(a) - value(b)): Array.prototype.sort is stable
sortHourLabelsChronologically(labels) == SortInto(<<>>, labels)

\* map.get(label) || null
RowValueFalsy(map, label) ==
    LET x == MapGet(map, label)
    IN  IF IsNullish(x) \/ (IsNumber(x) /\ x.v = 0) THEN Null ELSE x

\* map.get(label) ?? null
RowValue(map, label) == Coalesce(MapGet(map, label), Null)

\* prepareChartData with `data` as its argument; null data gives []
prepareChartData(d) ==
    IF d = <<>> THEN <<>>
    ELSE LET selectedDayMap == createHourPriceMap(d[1].selected_day.hours)
             previousDayMap == createHourPriceMap(d[1].previous_day.hours)
             nextDayMap == createHourPriceMap(d[1].next_day.hours)
             sortedLabels == sortHourLabelsChronologically(getAllHourLabels(d[1]))
         IN  [k \in 1..Len(sortedLabels) |->
                 [time     |-> sortedLabels[k],
                  selected |-> RowValue(selectedDayMap, sortedLabels[k]),
                  previous |-> RowValue(previousDayMap, sortedLabels[k]),
                  next     |-> RowValue(nextDayMap, sortedLabels[k])]]

-----------------------------------------------------------------------------
(* PriceChart: the Tooltip's formatter *)

MissingText == [t |-> "Missing", v |-> 0]

\* typeof value === 'number' ? `${value.toFixed(2)} EUR/MWh` : 'Missing'
TooltipFormatter(value) == IF IsNumber(value) THEN ToFixed2(value.v, 1) ELSE MissingText

-----------------------------------------------------------------------------
(* dateUtils: Date arithmetic.  A date string "YYYY-MM-DD" is <<y, m, d>>,  *)
(* a time value is a count of hours since 2024-01-01T00:00Z.               *)

IsLeapYear(y) == (y % 4 = 0 /\ y % 100 # 0) \/ y % 400 = 0
DaysInYear(y) == IF IsLeapYear(y) THEN 366 ELSE 365
DaysInMonth(y, m) ==
    IF m = 2 THEN (IF IsLeapYear(y) THEN 29 ELSE 28)
    ELSE IF m \in {4, 6, 9, 11} THEN 30 ELSE 31

RECURSIVE DaysBeforeYear(_)
DaysBeforeYear(y) == IF y <= 2024 THEN 0 ELSE DaysBeforeYear(y - 1) + DaysInYear(y - 1)

RECURSIVE DaysBeforeMonth(_, _)
DaysBeforeMonth(y, m) == IF m <= 1 THEN 0 ELSE DaysBeforeMonth(y, m - 1) + DaysInMonth(y, m - 1)

\* MakeDay(year, month, date): date may lie outside the month (setDate(0), setDate(32))
MakeDay(y, m, dt) == DaysBeforeYear(y) + DaysBeforeMonth(y, m) + dt - 1

RECURSIVE YearFromDay(_, _)
YearFromDay(n, y) == IF n < DaysInYear(y) THEN <<y, n>> ELSE YearFromDay(n - DaysInYear(y), y + 1)

RECURSIVE MonthFromDay(_, _, _)
MonthFromDay(y, n, m) ==
    IF n < DaysInMonth(y, m) THEN <<m, n + 1>> ELSE MonthFromDay(y, n - DaysInMonth(y, m), m + 1)

\* YearFromTime, MonthFromTime, DateFromTime of a day number >= 0
CivilFromDay(n) ==
    LET yn == YearFromDay(n, 2024)
        md == MonthFromDay(yn[1], yn[2], 1)
    IN  <<yn[1], md[1], md[2]>>

\* new Date("YYYY-MM-DD"): a date-only string is UTC midnight
ParseDate(str) == 24 * MakeDay(str[1], str[2], str[3])

\* date.toISOString().split('T')[0]: the UTC calendar date of the time value
formatDate(t) == CivilFromDay(t \div 24)

\* A time zone: its two offsets (hours east of UTC) and the UTC instants between
\* which the second applies in 2025 (dstStart = dstEnd: no daylight saving).
ZoneUTC == [name |-> "UTC", std |-> 0, dst |-> 0, dstStart |-> 0, dstEnd |-> 0]
ZoneVienna ==
    [name |-> "Europe/Vienna", std |-> 1, dst |-> 2,
     dstStart |-> 24 * MakeDay(2025, 3, 30) + 1, dstEnd |-> 24 * MakeDay(2025, 10, 26) + 1]
ZoneNewYork ==
    [name |-> "America/New_York", std |-> -5, dst |-> -4,
     dstStart |-> 24 * MakeDay(2025, 3, 9) + 7, dstEnd |-> 24 * MakeDay(2025, 11, 2) + 6]
ZoneTokyo == [name |-> "Asia/Tokyo", std |-> 9, dst |-> 9, dstStart |-> 0, dstEnd |-> 0]
TimeZones == {ZoneUTC, ZoneVienna, ZoneNewYork, ZoneTokyo}

OffsetAt(tz, t) == IF tz.dstStart <= t /\ t < tz.dstEnd THEN tz.dst ELSE tz.std

\* LocalTime(t)
LocalTime(tz, t) == t + OffsetAt(tz, t)

\* UTC(tlocal): a local time that occurs twice or not at all is read with the
\* offset in force before the transition
UTCOf(tz, tlocal) ==
    LET fits == {o \in {tz.std, tz.dst} : OffsetAt(tz, tlocal - o) = o}
    IN  IF fits # {} THEN tlocal - (CHOOSE o \in fits : \A p \in fits : p <= o)
        ELSE tlocal - (CHOOSE o \in {tz.std, tz.dst} : \A p \in {tz.std, tz.dst} : o <= p)

\* date.setDate(date.getDate() + delta), on the time value t
SetDateRelative(tz, t, delta) ==
    LET lt == LocalTime(tz, t)
        f  == CivilFromDay(lt \div 24)
    IN  UTCOf(tz, 24 * MakeDay(f[1], f[2], f[3] + delta) + (lt % 24))

getPreviousDay(tz, str) == formatDate(SetDateRelative(tz, ParseDate(str), -1))

getNextDay(tz, str) == formatDate(SetDateRelative(tz, ParseDate(str), 1))

-----------------------------------------------------------------------------
(* The responses of GET /api/prices/{date} *)

\* price_eur_mwh of the i-th slot of day number d (1 selected, 2 previous, 3 next)
\* of a response: negative, zero and positive prices, no two days alike
PriceOf(d, i) == 10 * (i - 2) + (d - 1)

SlotStates == {"priced", "missing", "stale", "unpriced"}

\* is_missing and price_eur_mwh of a slot: priced; flagged missing with a null
\* price; flagged missing with a price left in it; not flagged, price null
FillOf(state, price) ==
    CASE state = "priced"   -> [is_missing |-> FALSE, price |-> Num(price)]
      [] state = "missing"  -> [is_missing |-> TRUE,  price |-> Null]
      [] state = "stale"    -> [is_missing |-> TRUE,  price |-> Num(price)]
      [] state = "unpriced" -> [is_missing |-> FALSE, price |-> Null]

\* the calendar dates next to a date (the API's date - 1 and date + 1)
DayBefore(date) == CivilFromDay(MakeDay(date[1], date[2], date[3]) - 1)
DayAfter(date) == CivilFromDay(MakeDay(date[1], date[2], date[3]) + 1)

\* the local days of 2025 on which Europe/Vienna changes its offset
KindOfDate(date) ==
    IF date = <<2025, 3, 30>> THEN "spring"
    ELSE IF date = <<2025, 10, 26>> THEN "fall" ELSE "normal"

\* ApiResponse for `date`; kinds[d] and states[d][i] give day d's shape and slots
ApiResponse(date, kinds, states) ==
    LET day(d, on) ==
            DayData(on, kinds[d],
                    [i \in 1..SlotCount(kinds[d]) |-> FillOf(states[d][i], PriceOf(d, i))])
    IN  [selected_day |-> day(1, date),
         previous_day |-> day(2, DayBefore(date)),
         next_day     |-> day(3, DayAfter(date))]

DateKinds(date) == <<KindOfDate(date), KindOfDate(DayBefore(date)), KindOfDate(DayAfter(date))>>

\* every slot of the three days in one state
Uniform(kinds, state) == [d \in 1..3 |-> [i \in 1..SlotCount(kinds[d]) |-> state]]

\* what the API may answer for `date`: every hour priced, or nothing published yet
ResponsesFor(date) ==
    {ApiResponse(date, DateKinds(date), Uniform(DateKinds(date), st)) :
        st \in {"priced", "missing"}}

-----------------------------------------------------------------------------
(* App: state and handlers *)

NoError == "null"
LoadError == "Failed to load price data. Please try again."
ExportError == "Failed to export CSV. Please try again."

\* the dates the date picker is set to
AppDates == {<<2025, 3, 29>>, <<2025, 3, 30>>, <<2025, 10, 26>>}

RemoveAt(seq, i) == SubSeq(seq, 1, i - 1) \o SubSeq(seq, i + 1, Len(seq))

IdleStats == dayData = [date |-> <<2025, 1, 1>>, hours |-> <<>>] /\ stats = <<>>
IdleDates == dateStr = <<2025, 1, 1>> /\ timeZone = ZoneUTC
             /\ dateResult = [fn |-> "none", value |-> <<2025, 1, 1>>]

\* useState(getToday()), useState(null), useState(false), useState(null); first render
InitApp ==
    /\ selectedDate \in AppDates
    /\ data = <<>>
    /\ loading = FALSE
    /\ error = NoError
    /\ pending = <<>>
    /\ exporting = 0
    /\ mounted = FALSE
    /\ chartData = prepareChartData(<<>>)
    /\ tooltip = <<>>
    /\ IdleStats
    /\ IdleDates

\* fetchData(date) up to its await: setLoading(true); setError(null); axios.get
FetchStart(date) ==
    /\ loading' = TRUE
    /\ error' = NoError
    /\ pending' = Append(pending, date)
    /\ UNCHANGED <<data, exporting, tooltip>>
    /\ chartData' = prepareChartData(data')

\* useEffect(() => fetchData(selectedDate), [selectedDate]) after the first render
MountEffect ==
    /\ ~mounted
    /\ mounted' = TRUE
    /\ FetchStart(selectedDate)
    /\ UNCHANGED <<selectedDate, statsVars, dateVars>>

\* DatePicker onChange -> setSelectedDate(d); the effect runs fetchData(d)
ChangeDate(d) ==
    /\ mounted
    /\ d # selectedDate
    /\ Len(pending) < MaxPending
    /\ selectedDate' = d
    /\ FetchStart(d)
    /\ UNCHANGED <<mounted, statsVars, dateVars>>

\* fetchData after its await resolved: setData(response.data); finally setLoading(false)
FetchResolve(i, response) ==
    /\ data' = <<response>>
    /\ loading' = FALSE
    /\ pending' = RemoveAt(pending, i)
    /\ chartData' = prepareChartData(data')
    /\ UNCHANGED <<selectedDate, error, exporting, mounted, tooltip, statsVars, dateVars>>

\* the catch block without the finally block after it
FetchRejectWithoutFinally(i) ==
    /\ error' = LoadError
    /\ data' = <<>>
    /\ pending' = RemoveAt(pending, i)
    /\ chartData' = prepareChartData(data')
    /\ UNCHANGED <<selectedDate, loading, exporting, mounted, tooltip, statsVars, dateVars>>

\* fetchData after its await rejected: setError(...); setData(null); finally setLoading(false)
FetchReject(i) ==
    /\ error' = LoadError
    /\ data' = <<>>
    /\ loading' = FALSE
    /\ pending' = RemoveAt(pending, i)
    /\ chartData' = prepareChartData(data')
    /\ UNCHANGED <<selectedDate, exporting, mounted, tooltip, statsVars, dateVars>>

\* handleExportCsv up to its await
ExportStart ==
    /\ mounted
    /\ exporting < MaxExporting
    /\ exporting' = exporting + 1
    /\ UNCHANGED <<selectedDate, data, loading, error, pending, mounted, chartData,
                   tooltip, statsVars, dateVars>>

\* handleExportCsv after its await resolved: downloadFile(...) touches the DOM only
ExportResolve ==
    /\ exporting > 0
    /\ exporting' = exporting - 1
    /\ UNCHANGED <<selectedDate, data, loading, error, pending, mounted, chartData,
                   tooltip, statsVars, dateVars>>

\* a catch block like fetchData's: setError(...); setData(null)
ExportRejectClearingData ==
    /\ exporting > 0
    /\ exporting' = exporting - 1
    /\ error' = ExportError
    /\ data' = <<>>
    /\ chartData' = prepareChartData(data')
    /\ UNCHANGED <<selectedDate, loading, pending, mounted, tooltip, statsVars, dateVars>>

\* handleExportCsv's catch: setError('Failed to export CSV. Please try again.')
ExportReject ==
    /\ exporting > 0
    /\ exporting' = exporting - 1
    /\ error' = ExportError
    /\ chartData' = prepareChartData(data)
    /\ UNCHANGED <<selectedDate, data, loading, pending, mounted, tooltip, statsVars, dateVars>>

\* the render's view flags
showNoData == ~loading /\ error = NoError /\ data = <<>>
showContent == ~loading /\ error = NoError /\ data # <<>> /\ Len(chartData) > 0

NextApp ==
    \/ MountEffect
    \/ \E d \in AppDates : ChangeDate(d)
    \/ \E i \in 1..Len(pending) : \E r \in ResponsesFor(pending[i]) : FetchResolve(i, r)
    \/ \E i \in 1..Len(pending) : FetchReject(i)
    \/ ExportStart
    \/ ExportResolve
    \/ ExportReject

Spec == InitApp /\ [][NextApp]_vars

\* one of the awaited axios.get calls of fetchData settles
FetchComplete ==
    \/ \E i \in 1..Len(pending) : FetchReject(i)
    \/ \E i \in 1..Len(pending) : \E r \in ResponsesFor(pending[i]) : FetchResolve(i, r)

\* The App where React runs the mount effect after the first render and every
\* request that was issued resolves or rejects.
FairSpec == Spec /\ WF_vars(MountEffect) /\ WF_vars(FetchComplete)

-----------------------------------------------------------------------------
(* DaySummaryTable on one day *)

IdleApp ==
    /\ selectedDate = <<2025, 1, 1>>
    /\ data = <<>>
    /\ loading = FALSE
    /\ error = NoError
    /\ pending = <<>>
    /\ exporting = 0
    /\ mounted = TRUE
    /\ chartData = <<>>
    /\ tooltip = <<>>

StatPriceSet == {-5, 10, 20}

StatSlotFills ==
    {FillOf("priced", p) : p \in StatPriceSet}
        \cup {FillOf("missing", 0), FillOf("stale", 20), FillOf("unpriced", 0)}

InitStats ==
    /\ \E kind \in GridKinds : \E fills \in [1..SlotCount(kind) -> StatSlotFills] :
           dayData = DayData(<<2025, 1, 1>>, kind, fills)
    /\ stats = <<>>
    /\ IdleApp
    /\ IdleDates

\* a table row's stats: calculateStats(day)
CalculateStats ==
    /\ stats = <<>>
    /\ stats' = <<calculateStats(dayData)>>
    /\ UNCHANGED <<dayData, appVars, dateVars>>

NextStats == CalculateStats

SpecStats == InitStats /\ [][NextStats]_vars

-----------------------------------------------------------------------------
(* The chart of one response *)

\* of three adjacent days at most one is a transition day
KindTriples ==
    {k \in [1..3 -> GridKinds] : Cardinality({d \in 1..3 : k[d] # "normal"}) <= 1}

SlotPositions(kinds) ==
    {p \in (1..3) \X (1..(HoursPerDay + 1)) : p[2] <= SlotCount(kinds[p[1]])}

\* the slots of a response: the states of those in `gaps`, every other one priced
SlotStatesOf(kinds, gaps, st) ==
    [d \in 1..3 |-> [i \in 1..SlotCount(kinds[d]) |->
        IF <<d, i>> \in gaps THEN st[<<d, i>>] ELSE "priced"]]

\* what a slot without a usable price looks like in a response
GapStates == {"missing", "stale"}

\* a response with at most MaxGaps slots that are not plainly priced
InitChart ==
    /\ \E kinds \in KindTriples :
       \E gaps \in {g \in SUBSET SlotPositions(kinds) : Cardinality(g) <= MaxGaps} :
       \E st \in [gaps -> GapStates] :
           data = <<ApiResponse(<<2025, 1, 2>>, kinds, SlotStatesOf(kinds, gaps, st))>>
    /\ selectedDate = <<2025, 1, 2>>
    /\ loading = FALSE
    /\ error = NoError
    /\ pending = <<>>
    /\ exporting = 0
    /\ mounted = TRUE
    /\ chartData = <<>>
    /\ tooltip = <<>>
    /\ IdleStats
    /\ IdleDates

\* const chartData = prepareChartData() in the render that shows the response
RenderChart ==
    /\ chartData = <<>>
    /\ chartData' = prepareChartData(data)
    /\ UNCHANGED <<selectedDate, data, loading, error, pending, exporting, mounted,
                   tooltip, statsVars, dateVars>>

\* the Tooltip's formatter on the three values of every row of the chart
FormatTooltips ==
    /\ chartData # <<>>
    /\ tooltip = <<>>
    /\ tooltip' = [k \in 1..Len(chartData) |->
                      [selected |-> TooltipFormatter(chartData[k].selected),
                       previous |-> TooltipFormatter(chartData[k].previous),
                       next     |-> TooltipFormatter(chartData[k].next)]]
    /\ UNCHANGED <<selectedDate, data, loading, error, pending, exporting, mounted,
                   chartData, statsVars, dateVars>>

NextChart == RenderChart \/ FormatTooltips

SpecChart == InitChart /\ [][NextChart]_vars

-----------------------------------------------------------------------------
(* dateUtils on one date in one time zone *)

Dates2025 == {x \in {2025} \X (1..12) \X (1..31) : x[3] <= DaysInMonth(x[1], x[2])}

InitDates ==
    /\ dateStr \in Dates2025
    /\ timeZone \in TimeZones
    /\ dateResult = [fn |-> "none", value |-> <<2025, 1, 1>>]
    /\ IdleApp
    /\ IdleStats

CallGetNextDay ==
    /\ dateResult.fn = "none"
    /\ dateResult' = [fn |-> "getNextDay", value |-> getNextDay(timeZone, dateStr)]
    /\ UNCHANGED <<dateStr, timeZone, appVars, statsVars>>

CallGetPreviousDay ==
    /\ dateResult.fn = "none"
    /\ dateResult' = [fn |-> "getPreviousDay", value |-> getPreviousDay(timeZone, dateStr)]
    /\ UNCHANGED <<dateStr, timeZone, appVars, statsVars>>

NextDates == CallGetNextDay \/ CallGetPreviousDay

SpecDates == InitDates /\ [][NextDates]_vars

-----------------------------------------------------------------------------
(* Properties of DaySummaryTable (SpecStats) *)

\* the slots of a day that are not flagged missing
NonMissingSlots(day) == {i \in 1..Len(day.hours) : ~day.hours[i].is_missing}

\* the non-missing slots that carry a price
PricedSlots(day) == {i \in NonMissingSlots(day) : IsNumber(day.hours[i].price_eur_mwh)}

RECURSIVE PriceTotal(_, _)
PriceTotal(day, slots) ==
    IF slots = {} THEN 0
    ELSE LET i == CHOOSE x \in slots : TRUE
         IN  day.hours[i].price_eur_mwh.v + PriceTotal(day, slots \ {i})

\* C1: the displayed average of a day is the mean of price_eur_mwh over the
\* day's non-missing slots, to the nearest hundredth, and it is the
\* placeholder when the day has no non-missing slot that carries a price.
StatsAverageIsMean ==
    stats # <<>> =>
        LET n == Cardinality(PricedSlots(dayData))
            total == PriceTotal(dayData, PricedSlots(dayData))
        IN  /\ NonMissingSlots(dayData) = {} => stats[1].avg = Dash
            /\ n = 0 => stats[1].avg = Dash
            /\ n > 0 => /\ stats[1].avg.t = "fixed2"
                        /\ 2 * Abs(stats[1].avg.v * n - 100 * total) <= n

\* prices -5, 10 and 20 beside a slot flagged missing that still holds a
\* price: the average reads 8.33
StatsAverageWitness ==
    /\ stats # <<>>
    /\ Cardinality(PricedSlots(dayData)) = 3
    /\ {dayData.hours[i].price_eur_mwh.v : i \in PricedSlots(dayData)} = {-5, 10, 20}
    /\ \E i \in 1..Len(dayData.hours) :
           dayData.hours[i].is_missing /\ IsNumber(dayData.hours[i].price_eur_mwh)
    /\ stats[1].avg = Fixed2(833)

\* C2: with at least one non-missing priced slot, the displayed minimum and
\* maximum are the least and the greatest price among those slots, compared
\* as signed numbers; slots flagged missing contribute nothing.
StatsMinMaxSigned ==
    (stats # <<>> /\ PricedSlots(dayData) # {}) =>
        /\ stats[1].min.t = "fixed2" /\ stats[1].max.t = "fixed2"
        /\ \E i \in PricedSlots(dayData) : 100 * dayData.hours[i].price_eur_mwh.v = stats[1].min.v
        /\ \A i \in PricedSlots(dayData) : 100 * dayData.hours[i].price_eur_mwh.v >= stats[1].min.v
        /\ \E i \in PricedSlots(dayData) : 100 * dayData.hours[i].price_eur_mwh.v = stats[1].max.v
        /\ \A i \in PricedSlots(dayData) : 100 * dayData.hours[i].price_eur_mwh.v <= stats[1].max.v

\* a negative price is the minimum, and the 20 left in a slot flagged
\* missing is not the maximum
StatsMinMaxWitness ==
    /\ stats # <<>>
    /\ stats[1].min = Fixed2(-500)
    /\ stats[1].max = Fixed2(1000)
    /\ \E i \in 1..Len(dayData.hours) :
           dayData.hours[i].is_missing /\ dayData.hours[i].price_eur_mwh = Num(20)

\* C3: the missing count of a day equals the number of its slots flagged
\* is_missing, whatever the number of slots of the day.
StatsMissingCount ==
    stats # <<>> =>
        stats[1].missing = Cardinality({i \in 1..Len(dayData.hours) : dayData.hours[i].is_missing})

\* a spring-forward day, one slot short, with one slot flagged missing and
\* another that is not flagged but has no price
StatsMissingWitness ==
    /\ stats # <<>>
    /\ Len(dayData.hours) = HoursPerDay - 1
    /\ \A i \in 1..Len(dayData.hours) : dayData.hours[i].hour_label # HourLabel(TransitionHour, NoSuffix)
    /\ \E i \in 1..Len(dayData.hours) :
           ~dayData.hours[i].is_missing /\ dayData.hours[i].price_eur_mwh = Null
    /\ stats[1].missing = 1

-----------------------------------------------------------------------------
(* Properties of the chart rows (SpecChart) *)

DayKeySet == {"selected_day", "previous_day", "next_day"}

HoursOf(response, key) ==
    CASE key = "selected_day" -> response.selected_day.hours
      [] key = "previous_day" -> response.previous_day.hours
      [] key = "next_day"     -> response.next_day.hours

\* the column of a chart row (or of a formatted row) that belongs to a day
ColumnOf(row, key) ==
    CASE key = "selected_day" -> row.selected
      [] key = "previous_day" -> row.previous
      [] key = "next_day"     -> row.next

SlotsLabelled(response, key, label) ==
    {i \in 1..Len(HoursOf(response, key)) : HoursOf(response, key)[i].hour_label = label}

AllLabels(response) ==
    UNION {{HoursOf(response, key)[i].hour_label : i \in 1..Len(HoursOf(response, key))} :
              key \in DayKeySet}

\* hour of day and suffix of a label, read off its characters
ClockHour(label) == 10 * DigitValue(label[1]) + DigitValue(label[2])
SuffixRank(label) == IF Len(label) = 5 THEN 0 ELSE IF label[6] = "A" THEN 1 ELSE 2
Precedes(a, b) ==
    \/ ClockHour(a) < ClockHour(b)
    \/ ClockHour(a) = ClockHour(b) /\ SuffixRank(a) < SuffixRank(b)

\* C4: the rows carry exactly the labels of the three grids, one row each, by
\* ascending hour of day; within an hour the plain label comes first, then
\* suffix A, then suffix B.
ChartRowsOnePerLabelInOrder ==
    chartData # <<>> =>
        /\ {chartData[k].time : k \in 1..Len(chartData)} = AllLabels(data[1])
        /\ \A i, j \in 1..Len(chartData) :
               i < j => Precedes(chartData[i].time, chartData[j].time)

\* ... 01:00, 02:00, 02:00A, 02:00B, 03:00 ...
ChartOrderWitness ==
    /\ chartData # <<>>
    /\ \E k \in 1..Len(chartData) :
        /\ k + 4 <= Len(chartData)
        /\ chartData[k].time = HourLabel(TransitionHour - 1, NoSuffix)
        /\ chartData[k + 1].time = HourLabel(TransitionHour, NoSuffix)
        /\ chartData[k + 2].time = HourLabel(TransitionHour, <<"A">>)
        /\ chartData[k + 3].time = HourLabel(TransitionHour, <<"B">>)
        /\ chartData[k + 4].time = HourLabel(TransitionHour + 1, NoSuffix)

\* C5: for every slot of any of the three days that is not flagged missing,
\* exactly one row has the slot's label and that row holds the slot's price
\* in the day's column.
ChartRowCarriesSlotPrice ==
    chartData # <<>> =>
        \A key \in DayKeySet : \A i \in 1..Len(HoursOf(data[1], key)) :
            LET hour == HoursOf(data[1], key)[i]
            IN  ~hour.is_missing =>
                    /\ Cardinality({k \in 1..Len(chartData) : chartData[k].time = hour.hour_label}) = 1
                    /\ \A k \in 1..Len(chartData) :
                           chartData[k].time = hour.hour_label =>
                               ColumnOf(chartData[k], key) = hour.price_eur_mwh

\* a fall-back selected day: 02:00A and 02:00B keep their own prices, and a
\* price of 0 and a negative price arrive as numbers
ChartPriceWitness ==
    /\ chartData # <<>>
    /\ \E a, b, z, n \in 1..Len(chartData) :
        /\ chartData[a].time = HourLabel(TransitionHour, <<"A">>)
        /\ chartData[a].selected = Num(PriceOf(1, TransitionHour + 1))
        /\ chartData[b].time = HourLabel(TransitionHour, <<"B">>)
        /\ chartData[b].selected = Num(PriceOf(1, TransitionHour + 2))
        /\ chartData[z].selected = Num(0)
        /\ IsNumber(chartData[n].selected) /\ chartData[n].selected.v < 0

\* C6: a day's value in a row is null whenever the day has no slot with the
\* row's label or its slot with that label is flagged missing.
ChartEmptyWhenAbsentOrMissing ==
    chartData # <<>> =>
        \A k \in 1..Len(chartData) : \A key \in DayKeySet :
            LET at == SlotsLabelled(data[1], key, chartData[k].time)
            IN  (at = {} \/ \E i \in at : HoursOf(data[1], key)[i].is_missing)
                    => ColumnOf(chartData[k], key) = Null

\* one day lacks the row's label, another day's slot is flagged missing with
\* a price left in it: both values are null
ChartEmptyWitness ==
    /\ chartData # <<>>
    /\ \E k \in 1..Len(chartData) : \E key \in DayKeySet :
        /\ SlotsLabelled(data[1], key, chartData[k].time) = {}
        /\ ColumnOf(chartData[k], key) = Null
    /\ \E k \in 1..Len(chartData) : \E key \in DayKeySet :
        /\ \E i \in SlotsLabelled(data[1], key, chartData[k].time) :
               /\ HoursOf(data[1], key)[i].is_missing
               /\ IsNumber(HoursOf(data[1], key)[i].price_eur_mwh)
        /\ ColumnOf(chartData[k], key) = Null

\* C7: a spring-forward day (one slot short) is not shown as missing a value
\* at a label it has no slot for.
SkippedHourNotShownMissing ==
    tooltip # <<>> =>
        \A key \in DayKeySet :
            Len(HoursOf(data[1], key)) = HoursPerDay - 1 =>
                \A k \in 1..Len(chartData) :
                    SlotsLabelled(data[1], key, chartData[k].time) = {}
                        => ColumnOf(tooltip[k], key) # MissingText

-----------------------------------------------------------------------------
(* Properties of the App's fetches (Spec) *)

AllSlotsMissing(response) ==
    \A key \in DayKeySet : \A i \in 1..Len(HoursOf(response, key)) :
        HoursOf(response, key)[i].is_missing

\* the content view of a response nothing was published for: data set, no
\* error, every value of every row null, each day's missing count its slot count
ShowsAllMissingContent ==
    /\ data # <<>>
    /\ error = NoError
    /\ ~loading
    /\ Len(chartData) > 0
    /\ \A k \in 1..Len(chartData) : \A key \in DayKeySet : ColumnOf(chartData[k], key) = Null
    /\ calculateStats(data[1].selected_day).missing = Len(data[1].selected_day.hours)
    /\ calculateStats(data[1].previous_day).missing = Len(data[1].previous_day.hours)
    /\ calculateStats(data[1].next_day).missing = Len(data[1].next_day.hours)

ShowsError == error # NoError /\ data = <<>>

\* C8: when a fetch completes and no other request is in flight, a response
\* whose slots are all missing ends in the content state (data set, error
\* null, empty values, missing count equal to the slot count) and a failure
\* ends in the error state (error set, data null).
FetchOutcomesDistinguishable ==
    [][(Len(pending) = 1 /\ pending' = <<>> /\ exporting' = 0) =>
          /\ (data' # <<>> /\ AllSlotsMissing(data'[1])) => ShowsAllMissingContent'
          /\ data' = <<>> => ShowsError']_vars

\* C9: once no fetch is outstanding, the data shown is the response for the
\* selected date: the result of a superseded fetch is not kept.
ShownDataIsForSelectedDate ==
    (pending = <<>> /\ data # <<>>) => data[1].selected_day.date = selectedDate

\* C11: loading is true whenever at least one price fetch is outstanding; the
\* completion of the first of two overlapping fetches does not clear it
\* while the second is still in flight.
LoadingWhileFetchOutstanding == pending # <<>> => loading

\* loading is false and there is something to show: data or an error
Settled == ~loading /\ (data # <<>> \/ error # NoError)

\* C12: if the date changes only finitely often, the App eventually is, and
\* stays, in a state with loading = false and data or error non-null; and
\* from such a state loading becomes true only with a change of the date.
FetchesTerminateLoading ==
    /\ <>[][selectedDate' = selectedDate]_vars => <>[]Settled
    /\ [][(Settled /\ loading') => selectedDate' # selectedDate]_vars

\* after a date change with the first fetch still pending both fetches have
\* completed, the superseded one by failing, the later one with a response
LoadingTerminatedWitness ==
    /\ mounted /\ pending = <<>>
    /\ ~loading
    /\ error = LoadError
    /\ data # <<>> /\ data[1].selected_day.date = selectedDate

\* the children of the render's <section>: {loading && ...} {error && ...}
\* {showContent && ...} {showNoData && ...}
ViewsRendered ==
    {v \in {"loading", "error", "content", "noData"} :
        \/ v = "loading" /\ loading
        \/ v = "error" /\ error # NoError
        \/ v = "content" /\ showContent
        \/ v = "noData" /\ showNoData}

\* C13: in every reachable state at most one of the four views is rendered:
\* the loading spinner, the error message, the content, the no-data notice.
AtMostOneViewRendered == Cardinality(ViewsRendered) <= 1

\* C14: a step of a CSV export (its request going out, its success, its
\* failure) leaves data, selectedDate and loading unchanged and starts no
\* price fetch; error changes only when the export fails, and then to the
\* export's message.
ExportChangesOnlyError ==
    [][exporting' # exporting =>
          /\ data' = data
          /\ selectedDate' = selectedDate
          /\ loading' = loading
          /\ pending' = pending
          /\ error' # error => (exporting' < exporting /\ error' = ExportError)]_vars

\* an export has failed while a response was on show: its message is the
\* error, the response is still there and no request is in flight
ExportFailedWitness ==
    /\ error = ExportError
    /\ data # <<>>
    /\ ~loading /\ pending = <<>> /\ exporting = 0

-----------------------------------------------------------------------------
(* Properties of dateUtils (SpecDates) *)

CalendarNext(date) ==
    IF date[3] < DaysInMonth(date[1], date[2]) THEN <<date[1], date[2], date[3] + 1>>
    ELSE IF date[2] < 12 THEN <<date[1], date[2] + 1, 1>>
    ELSE <<date[1] + 1, 1, 1>>

CalendarPrevious(date) ==
    IF date[3] > 1 THEN <<date[1], date[2], date[3] - 1>>
    ELSE IF date[2] > 1 THEN <<date[1], date[2] - 1, DaysInMonth(date[1], date[2] - 1)>>
    ELSE <<date[1] - 1, 12, 31>>

\* C10: in every time zone, getNextDay(d) is the calendar date after d and
\* getPreviousDay(d) the calendar date before d.
AdjacentDatesByCalendar ==
    /\ dateResult.fn = "getNextDay" => dateResult.value = CalendarNext(dateStr)
    /\ dateResult.fn = "getPreviousDay" => dateResult.value = CalendarPrevious(dateStr)

====
